---- MODULE Spec2Model ----
(***************************************************************************)
(* Container Analysis samples (package sample) and the healthcare          *)
(* deleteDataset snippet, as a state machine.                              *)
(*                                                                         *)
(* Text is a sequence of tokens: a token is a literal chunk of a format    *)
(* string ("projects/"), a formatting verb ("%s", "%q", "%v") or one       *)
(* character of a caller-supplied identifier.  The remote services, the    *)
(* result cursors, the Pub/Sub library and the clock are the environment:  *)
(* every answer they can give is a nondeterministic choice.                *)
(***************************************************************************)
EXTENDS Integers, Sequences, FiniteSets, TLC

\* ---------------------------------------------------------------- bounds
MaxIdLen == 1
MaxItems == 3
MaxDeliveries == 2
MaxTimeout == 1

\* ------------------------------------------------------------ input sets
RECURSIVE Strs(_, _)
Strs(alphabet, n) ==
  IF n = 0 THEN {<<>>}
  ELSE LET shorter == Strs(alphabet, n - 1)
       IN  shorter \cup {Append(s, ch) : s \in shorter, ch \in alphabet}

\* identifiers may hold a path separator or text that looks like a verb
IDs == Strs({"a", "/", "%s"}, MaxIdLen)
URLs == Strs({"u", "\""}, MaxIdLen)
OccurrenceNames == {<<"projects/", "a", "/occurrences/", "o">>, <<"%s">>, <<>>}
SubscriptionIDs == {<<"s">>}
PubsubProjects == {<<"a">>, <<"%s">>}
Locations == {<<"l">>, <<"/">>}
\* seconds; small, so that time.Duration(timeout)*time.Second stays within int64
Timeouts == -1..MaxTimeout
Payloads == {<<"n1">>, <<"n2">>}
Items == {<<"o1">>, <<"o2">>}
Msgs == {<<"m">>, <<"\"">>}

\* ---------------------------------------------------------------- errors
NilErr == [nil |-> TRUE, msg |-> <<>>]
Err(m) == [nil |-> FALSE, msg |-> m]
Done == Err(<<"no more items in iterator">>)
RemoteErrors == {Err(<<"NotFound">>), Err(<<"Unavailable">>)}
ClientErrors == {Err(<<"no credentials">>)}

\* ------------------------------------------------------------------- fmt
\* strconv.Quote, as the verb %q applies it
RECURSIVE Escape(_)
Escape(s) ==
  IF s = <<>> THEN <<>>
  ELSE (IF Head(s) \in {"\"", "\\"} THEN <<"\\", Head(s)>> ELSE <<Head(s)>>)
       \o Escape(Tail(s))

Quote(s) == <<"\"">> \o Escape(s) \o <<"\"">>

\* an int in decimal, as the verb %d and Println write it
Digits == <<"0", "1", "2", "3", "4", "5", "6", "7", "8", "9">>
RECURSIVE Utoa(_)
Utoa(n) == IF n < 10 THEN <<Digits[n + 1]>> ELSE Utoa(n \div 10) \o <<Digits[(n % 10) + 1]>>
Itoa(n) == IF n < 0 THEN <<"-">> \o Utoa(-n) ELSE Utoa(n)

\* fmt.Sprintf: the format is scanned once, left to right; each verb consumes
\* the next operand, and the operand's own text is never scanned again.
RECURSIVE Sprintf(_, _)
Sprintf(format, a) ==
  IF Len(format) = 0 THEN <<>>
  ELSE IF Head(format) \in {"%s", "%v", "%q", "%d"}
       THEN IF Len(a) = 0
            THEN <<"%!", Head(format), "(MISSING)">> \o Sprintf(Tail(format), a)
            ELSE (CASE Head(format) = "%q" -> Quote(Head(a))
                    [] Head(format) = "%d" -> Itoa(Head(a))
                    [] OTHER -> Head(a))
                 \o Sprintf(Tail(format), Tail(a))
       ELSE <<Head(format)>> \o Sprintf(Tail(format), a)

\* fmt.Println: the operand's text and a newline
Println(text) == text \o <<"\n">>
\* how a *Note or *Occurrence prints: a nil pointer prints as <nil>
PtrText(res) == IF res = <<>> THEN <<"<nil>">> ELSE res

\* fmt.Errorf: a new error whose message is the formatted text
Errorf(format, a) == Err(Sprintf(format, a))

\* ----------------------------------------------------------------- state
VARIABLES
  pc,           \* "idle" | "loop" | "recv" | "done": where the invocation is
  op,           \* the operation invoked ("" before any)
  args,         \* its arguments
  calls,        \* the remote calls made so far: <<[method, req], ...>>
  resp,         \* the remote's answer to the call: [res, err]
  out,          \* the text printed so far, one entry per print call
  ret,          \* what the operation returned: [n, res, err]
  it,           \* the result cursor: [items, term]
  nextCalls,    \* how many times it.Next() was called
  count,        \* the local variable count
  mu,           \* sync.Mutex: 0 when unlocked, else the callback holding it
  cb,           \* the callback invocations: [pc, msg, tmp, acks] each
  ctxCancelled, \* the caller's context is cancelled
  toctxErr,     \* toctx.Err(): "" | "DeadlineExceeded" | "Canceled"
  deadline,     \* seconds from invocation at which toctx expires
  now,          \* seconds elapsed since invocation
  recvErr       \* the non-retryable error the receive session hit, or NilErr

vars == <<pc, op, args, calls, resp, out, ret, it, nextCalls, count, mu, cb,
          ctxCancelled, toctxErr, deadline, now, recvErr>>

listVars == <<it, nextCalls, count>>
pubsubVars == <<mu, cb, ctxCancelled, toctxErr, deadline, now, recvErr>>

NoResp == [res |-> <<>>, err |-> NilErr]
NoRet == [n |-> 0, res |-> <<>>, err |-> NilErr]
NoCursor == [items |-> <<>>, term |-> Done]
NoCallback == [pc |-> "none", msg |-> <<>>, tmp |-> 0, acks |-> 0]
Call(method, req) == [method |-> method, req |-> req]

Init ==
  /\ pc = "idle"
  /\ op = ""
  /\ args = <<>>
  /\ calls = <<>>
  /\ resp = NoResp
  /\ out = <<>>
  /\ ret = NoRet
  /\ it = NoCursor
  /\ nextCalls = 0
  /\ count = 0
  /\ mu = 0
  /\ cb = [c \in 1..MaxDeliveries |-> NoCallback]
  /\ ctxCancelled = FALSE
  /\ toctxErr = ""
  /\ deadline = 0
  /\ now = 0
  /\ recvErr = NilErr

\* ------------------------------------------------- the remote's answers
\* a unary call answers with a result and no error, or no result and an error
Answers == {[res |-> r, err |-> NilErr] : r \in Payloads}
             \cup {[res |-> <<>>, err |-> e] : e \in RemoteErrors}
\* a delete answers with an error or nil
DeleteAnswers == {NilErr} \cup RemoteErrors
\* a cursor yields its items and then its terminator, iterator.Done or an error
RECURSIVE Seqs(_, _)
Seqs(S, n) ==
  IF n = 0 THEN {<<>>}
  ELSE LET shorter == Seqs(S, n - 1)
       IN  shorter \cup {Append(s, x) : s \in shorter, x \in S}
Cursors == {[items |-> s, term |-> t] :
              s \in Seqs(Items, MaxItems), t \in {Done} \cup RemoteErrors}

\* one unary invocation, start to return: the call is logged, the answer returned
Unary(name, a, method, req, n, res, err, printed) ==
  /\ pc = "idle"
  /\ op' = name
  /\ args' = a
  /\ calls' = Append(calls, Call(method, req))
  /\ resp' = [res |-> res, err |-> err]
  /\ out' = out \o printed
  /\ ret' = [n |-> n, res |-> res, err |-> err]
  /\ pc' = "done"
  /\ UNCHANGED <<listVars, pubsubVars>>

\* ------------------------------------------------------- unary operations
createNote(noteID, projectID) ==
  \E a \in Answers :
    Unary("createNote",
          [noteID |-> noteID, projectID |-> projectID],
          "CreateNote",
          [Parent |-> Sprintf(<<"projects/", "%s">>, <<projectID>>),
           NoteId |-> noteID],
          0, a.res, a.err, <<>>)

\* mutant: the note path is built from the occurrence's project
createOccurrenceOneProject(imageURL, noteID, occProjectID, noteProjectID) ==
  \E a \in Answers :
    Unary("createOccurrence",
          [imageURL |-> imageURL, noteID |-> noteID,
           occProjectID |-> occProjectID, noteProjectID |-> noteProjectID],
          "CreateOccurrence",
          [Parent |-> Sprintf(<<"projects/", "%s">>, <<occProjectID>>),
           NoteName |-> Sprintf(<<"projects/", "%s", "/notes/", "%s">>,
                                <<occProjectID, noteID>>),
           Uri |-> imageURL],
          0, a.res, a.err, <<>>)

createOccurrence(imageURL, noteID, occProjectID, noteProjectID) ==
  \E a \in Answers :
    Unary("createOccurrence",
          [imageURL |-> imageURL, noteID |-> noteID,
           occProjectID |-> occProjectID, noteProjectID |-> noteProjectID],
          "CreateOccurrence",
          [Parent |-> Sprintf(<<"projects/", "%s">>, <<occProjectID>>),
           NoteName |-> Sprintf(<<"projects/", "%s", "/notes/", "%s">>,
                                <<noteProjectID, noteID>>),
           Uri |-> imageURL],
          0, a.res, a.err, <<>>)

updateNote(updated, noteID, projectID) ==
  \E a \in Answers :
    Unary("updateNote",
          [updated |-> updated, noteID |-> noteID, projectID |-> projectID],
          "UpdateNote",
          [Name |-> Sprintf(<<"projects/", "%s", "/notes/", "%s">>,
                            <<projectID, noteID>>),
           Note |-> updated],
          0, a.res, a.err, <<>>)

updateOccurrence(updated, occurrenceName) ==
  \E a \in Answers :
    Unary("updateOccurrence",
          [updated |-> updated, occurrenceName |-> occurrenceName],
          "UpdateOccurrence",
          [Name |-> occurrenceName, Occurrence |-> updated],
          0, a.res, a.err, <<>>)

\* mutant: the operands of the format are given in the order of the parameters
deleteNoteSwapped(noteID, projectID) ==
  \E e \in DeleteAnswers :
    Unary("deleteNote",
          [noteID |-> noteID, projectID |-> projectID],
          "DeleteNote",
          [Name |-> Sprintf(<<"projects/", "%s", "/notes/", "%s">>,
                            <<noteID, projectID>>)],
          0, <<>>, e, <<>>)

deleteNote(noteID, projectID) ==
  \E e \in DeleteAnswers :
    Unary("deleteNote",
          [noteID |-> noteID, projectID |-> projectID],
          "DeleteNote",
          [Name |-> Sprintf(<<"projects/", "%s", "/notes/", "%s">>,
                            <<projectID, noteID>>)],
          0, <<>>, e, <<>>)

\* mutant: a failed delete is tried once more
deleteOccurrenceRetry(occurrenceName) ==
  /\ pc = "idle"
  /\ op' = "deleteOccurrence"
  /\ args' = [occurrenceName |-> occurrenceName]
  /\ \E e1 \in DeleteAnswers, e2 \in DeleteAnswers :
       LET c == Call("DeleteOccurrence", [Name |-> occurrenceName])
       IN  IF e1.nil
           THEN /\ calls' = Append(calls, c)
                /\ resp' = [res |-> <<>>, err |-> e1]
                /\ ret' = [NoRet EXCEPT !.err = e1]
           ELSE /\ calls' = calls \o <<c, c>>
                /\ resp' = [res |-> <<>>, err |-> e2]
                /\ ret' = [NoRet EXCEPT !.err = e2]
  /\ pc' = "done"
  /\ UNCHANGED <<out, listVars, pubsubVars>>

deleteOccurrence(occurrenceName) ==
  \E e \in DeleteAnswers :
    Unary("deleteOccurrence",
          [occurrenceName |-> occurrenceName],
          "DeleteOccurrence",
          [Name |-> occurrenceName], 0, <<>>, e, <<>>)

getNote(noteID, projectID) ==
  \E a \in Answers :
    Unary("getNote",
          [noteID |-> noteID, projectID |-> projectID],
          "GetNote",
          [Name |-> Sprintf(<<"projects/", "%s", "/notes/", "%s">>,
                            <<projectID, noteID>>)],
          0, a.res, a.err, <<Println(PtrText(a.res))>>)

getOccurrence(occurrenceName) ==
  \E a \in Answers :
    Unary("getOccurrence",
          [occurrenceName |-> occurrenceName],
          "GetOccurrence",
          [Name |-> occurrenceName], 0, a.res, a.err, <<Println(PtrText(a.res))>>)

\* deleteDataset builds its own service, and writes to w (held in out here)
deleteDataset(projectID, location, datasetID) ==
  /\ pc = "idle"
  /\ op' = "deleteDataset"
  /\ args' = [projectID |-> projectID, location |-> location, datasetID |-> datasetID]
  /\ pc' = "done"
  /\ \E svc \in {NilErr} \cup ClientErrors :
       IF ~svc.nil
       THEN /\ ret' = [NoRet EXCEPT
                         !.err = Errorf(<<"healthcare.New: ", "%v">>, <<svc.msg>>)]
            /\ UNCHANGED <<calls, resp, out>>
       ELSE LET name == Sprintf(<<"projects/", "%s", "/locations/", "%s",
                                  "/datasets/", "%s">>,
                                <<projectID, location, datasetID>>)
            IN  /\ calls' = Append(calls, Call("Datasets.Delete", [Name |-> name]))
                /\ \E e \in DeleteAnswers :
                     /\ resp' = [res |-> <<>>, err |-> e]
                     /\ IF ~e.nil
                        THEN /\ ret' = [NoRet EXCEPT
                                       !.err = Errorf(<<"Delete: ", "%v">>, <<e.msg>>)]
                             /\ out' = out
                        ELSE /\ out' = Append(out,
                                 Sprintf(<<"Deleted dataset: ", "%q", "\n">>,
                                         <<name>>))
                             /\ ret' = NoRet
  /\ UNCHANGED <<listVars, pubsubVars>>

createOccurrenceSubscription(subscriptionID, projectID) ==
  /\ pc = "idle"
  /\ op' = "createOccurrenceSubscription"
  /\ args' = [subscriptionID |-> subscriptionID, projectID |-> projectID]
  /\ pc' = "done"
  /\ \E cl \in {NilErr} \cup ClientErrors :
       IF ~cl.nil
       THEN /\ ret' = [NoRet EXCEPT !.err = cl]
            /\ UNCHANGED <<calls, resp>>
       ELSE /\ calls' = Append(calls, Call("CreateSubscription",
                 [Project |-> projectID, ID |-> subscriptionID,
                  Topic |-> <<"container-analysis-occurrences-v1beta1">>]))
            /\ \E e \in DeleteAnswers :
                 /\ resp' = [res |-> <<>>, err |-> e]
                 /\ ret' = [NoRet EXCEPT !.err = e]
  /\ UNCHANGED <<out, listVars, pubsubVars>>

\* ---------------------------------------------------- paginated operations
\* the k-th call of it.Next(): the k-th item, or the terminator from then on
ItNext(cursor, k) ==
  IF k <= Len(cursor.items)
  THEN [item |-> cursor.items[k], err |-> NilErr]
  ELSE [item |-> <<>>, err |-> cursor.term]

\* the request is built and the cursor obtained; the loop is entered
List(name, a, method, req) ==
  /\ pc = "idle"
  /\ op' = name
  /\ args' = a
  /\ calls' = Append(calls, Call(method, req))
  /\ it' \in Cursors
  /\ nextCalls' = 0
  /\ count' = 0
  /\ pc' = "loop"
  /\ UNCHANGED <<resp, out, ret, pubsubVars>>

getDiscoveryInfo(imageURL, projectID) ==
  List("getDiscoveryInfo",
       [imageURL |-> imageURL, projectID |-> projectID],
       "ListOccurrences",
       [Parent |-> Sprintf(<<"projects/", "%s">>, <<projectID>>),
        Filter |-> Sprintf(<<"kind=\"DISCOVERY\" AND resourceUrl=", "%q">>,
                           <<imageURL>>)])

\* mutant: a failing element is skipped (continue) and the loop goes on
getDiscoveryInfoNextSkip ==
  /\ pc = "loop"
  /\ op = "getDiscoveryInfo"
  /\ LET r == ItNext(it, nextCalls + 1)
     IN  /\ nextCalls' = nextCalls + 1
         /\ IF r.err = Done
            THEN /\ ret' = NoRet
                 /\ pc' = "done"
                 /\ out' = out
            ELSE IF ~r.err.nil
            THEN UNCHANGED <<ret, pc, out>>
            ELSE /\ out' = Append(out, Println(r.item))
                 /\ UNCHANGED <<ret, pc>>
  /\ UNCHANGED <<op, args, calls, resp, it, count, pubsubVars>>

\* one iteration of the loop of getDiscoveryInfo
getDiscoveryInfoNext ==
  /\ pc = "loop"
  /\ op = "getDiscoveryInfo"
  /\ LET r == ItNext(it, nextCalls + 1)
     IN  /\ nextCalls' = nextCalls + 1
         /\ IF r.err = Done
            THEN /\ ret' = NoRet
                 /\ pc' = "done"
                 /\ out' = out
            ELSE IF ~r.err.nil
            THEN /\ ret' = [NoRet EXCEPT !.err = r.err]
                 /\ pc' = "done"
                 /\ out' = out
            ELSE /\ out' = Append(out, Println(r.item))
                 /\ UNCHANGED <<ret, pc>>
  /\ UNCHANGED <<op, args, calls, resp, it, count, pubsubVars>>

getOccurrencesForNote(noteID, projectID) ==
  List("getOccurrencesForNote",
       [noteID |-> noteID, projectID |-> projectID],
       "ListNoteOccurrences",
       [Name |-> Sprintf(<<"projects/", "%s", "/notes/", "%s">>,
                         <<projectID, noteID>>)])

\* mutant: a failing cursor returns the partial count, not -1
getOccurrencesForNoteNextPartial ==
  /\ pc = "loop"
  /\ op = "getOccurrencesForNote"
  /\ LET r == ItNext(it, nextCalls + 1)
     IN  /\ nextCalls' = nextCalls + 1
         /\ IF r.err = Done
            THEN /\ ret' = [NoRet EXCEPT !.n = count]
                 /\ pc' = "done"
                 /\ UNCHANGED <<out, count>>
            ELSE IF ~r.err.nil
            THEN /\ ret' = [NoRet EXCEPT !.n = count, !.err = r.err]
                 /\ pc' = "done"
                 /\ UNCHANGED <<out, count>>
            ELSE /\ out' = Append(out, Println(r.item))
                 /\ count' = count + 1
                 /\ UNCHANGED <<ret, pc>>
  /\ UNCHANGED <<op, args, calls, resp, it, pubsubVars>>

\* one iteration of the loop of getOccurrencesForNote
getOccurrencesForNoteNext ==
  /\ pc = "loop"
  /\ op = "getOccurrencesForNote"
  /\ LET r == ItNext(it, nextCalls + 1)
     IN  /\ nextCalls' = nextCalls + 1
         /\ IF r.err = Done
            THEN /\ ret' = [NoRet EXCEPT !.n = count]
                 /\ pc' = "done"
                 /\ UNCHANGED <<out, count>>
            ELSE IF ~r.err.nil
            THEN /\ ret' = [NoRet EXCEPT !.n = -1, !.err = r.err]
                 /\ pc' = "done"
                 /\ UNCHANGED <<out, count>>
            ELSE /\ out' = Append(out, Println(r.item))
                 /\ count' = count + 1
                 /\ UNCHANGED <<ret, pc>>
  /\ UNCHANGED <<op, args, calls, resp, it, pubsubVars>>

getOccurrencesForImage(imageURL, projectID) ==
  List("getOccurrencesForImage",
       [imageURL |-> imageURL, projectID |-> projectID],
       "ListOccurrences",
       [Parent |-> Sprintf(<<"projects/", "%s">>, <<projectID>>),
        Filter |-> Sprintf(<<"resourceUrl=", "%q">>, <<imageURL>>)])

\* mutant: count is incremented before the end of the stream is tested
getOccurrencesForImageNextCountFirst ==
  /\ pc = "loop"
  /\ op = "getOccurrencesForImage"
  /\ LET r == ItNext(it, nextCalls + 1)
     IN  /\ nextCalls' = nextCalls + 1
         /\ count' = count + 1
         /\ IF r.err = Done
            THEN /\ ret' = [NoRet EXCEPT !.n = count + 1]
                 /\ pc' = "done"
                 /\ out' = out
            ELSE IF ~r.err.nil
            THEN /\ ret' = [NoRet EXCEPT !.n = -1, !.err = r.err]
                 /\ pc' = "done"
                 /\ out' = out
            ELSE /\ out' = Append(out, Println(r.item))
                 /\ UNCHANGED <<ret, pc>>
  /\ UNCHANGED <<op, args, calls, resp, it, pubsubVars>>

\* one iteration of the loop of getOccurrencesForImage
getOccurrencesForImageNext ==
  /\ pc = "loop"
  /\ op = "getOccurrencesForImage"
  /\ LET r == ItNext(it, nextCalls + 1)
     IN  /\ nextCalls' = nextCalls + 1
         /\ IF r.err = Done
            THEN /\ ret' = [NoRet EXCEPT !.n = count]
                 /\ pc' = "done"
                 /\ UNCHANGED <<out, count>>
            ELSE IF ~r.err.nil
            THEN /\ ret' = [NoRet EXCEPT !.n = -1, !.err = r.err]
                 /\ pc' = "done"
                 /\ UNCHANGED <<out, count>>
            ELSE /\ out' = Append(out, Println(r.item))
                 /\ count' = count + 1
                 /\ UNCHANGED <<ret, pc>>
  /\ UNCHANGED <<op, args, calls, resp, it, pubsubVars>>

\* ------------------------------------------------------------- Pub/Sub
\* mutant: cancel() is called at once, not deferred
WithTimeoutCancelled(parentCancelled, d) == "Canceled"

\* context.WithTimeout(ctx, d): the derived context is done from the start when
\* the parent is, or when d is not positive; else it is live and expires at d
WithTimeout(parentCancelled, d) ==
  IF parentCancelled THEN "Canceled"
  ELSE IF d <= 0 THEN "DeadlineExceeded"
  ELSE ""

\* the callback invocations made so far in this session
Invocations == Cardinality({c \in DOMAIN cb : cb[c].pc # "none"})
\* no callback is running
AllReturned == \A c \in DOMAIN cb : cb[c].pc \in {"none", "ret"}

\* lines 236-249: the client, the subscription, the counter, toctx, and
\* sub.Receive is entered.  cancelled: the caller's ctx is already cancelled.
occurrencePubsub(subscriptionID, timeout, projectID) ==
  /\ pc = "idle"
  /\ op' = "occurrencePubsub"
  /\ args' = [subscriptionID |-> subscriptionID, timeout |-> timeout,
              projectID |-> projectID]
  /\ \E cl \in {NilErr} \cup ClientErrors, cancelled \in BOOLEAN :
       /\ ctxCancelled' = cancelled
       /\ IF ~cl.nil
          THEN /\ ret' = [NoRet EXCEPT !.n = -1, !.err = cl]
               /\ pc' = "done"
               /\ UNCHANGED <<calls, toctxErr, deadline>>
          ELSE /\ calls' = Append(calls, Call("Receive",
                    [Project |-> projectID, Subscription |-> subscriptionID]))
               /\ toctxErr' = WithTimeout(cancelled, timeout)
               /\ deadline' = timeout
               /\ pc' = "recv"
               /\ ret' = ret
  /\ count' = 0
  /\ UNCHANGED <<resp, out, it, nextCalls, mu, cb, now, recvErr>>

\* the library hands a message to a new concurrent call of the callback
\* (the same message may be handed over again: at-least-once delivery)
Deliver(m) ==
  /\ pc = "recv"
  /\ toctxErr = ""
  /\ recvErr.nil
  /\ Invocations < MaxDeliveries
  /\ cb' = [cb EXCEPT ![Invocations + 1] =
              [pc |-> "lock", msg |-> m, tmp |-> 0, acks |-> 0]]
  /\ UNCHANGED <<pc, op, args, calls, resp, out, ret, listVars, mu, ctxCancelled,
                 toctxErr, deadline, now, recvErr>>

\* mutant: the callback does not wait for mu
cbLockNoWait(c) ==
  /\ cb[c].pc = "lock"
  /\ mu' = c
  /\ cb' = [cb EXCEPT ![c].pc = "read"]
  /\ UNCHANGED <<pc, op, args, calls, resp, out, ret, listVars, ctxCancelled,
                 toctxErr, deadline, now, recvErr>>

\* line 250: mu.Lock() blocks while another callback holds mu
cbLock(c) ==
  /\ cb[c].pc = "lock"
  /\ mu = 0
  /\ mu' = c
  /\ cb' = [cb EXCEPT ![c].pc = "read"]
  /\ UNCHANGED <<pc, op, args, calls, resp, out, ret, listVars, ctxCancelled,
                 toctxErr, deadline, now, recvErr>>

\* line 251, count = count + 1: the load of count ...
cbRead(c) ==
  /\ cb[c].pc = "read"
  /\ cb' = [cb EXCEPT ![c].tmp = count, ![c].pc = "write"]
  /\ UNCHANGED <<pc, op, args, calls, resp, out, ret, listVars, mu, ctxCancelled,
                 toctxErr, deadline, now, recvErr>>

\* ... and the store of the sum
cbWrite(c) ==
  /\ cb[c].pc = "write"
  /\ count' = cb[c].tmp + 1
  /\ cb' = [cb EXCEPT ![c].pc = "print"]
  /\ UNCHANGED <<pc, op, args, calls, resp, out, ret, it, nextCalls, mu, ctxCancelled,
                 toctxErr, deadline, now, recvErr>>

\* line 252: fmt.Printf("Message %d: %q\n", count, string(msg.Data))
cbPrintf(c) ==
  /\ cb[c].pc = "print"
  /\ out' = Append(out, Sprintf(<<"Message ", "%d", ": ", "%q", "\n">>,
                                <<count, cb[c].msg>>))
  /\ cb' = [cb EXCEPT ![c].pc = "ack"]
  /\ UNCHANGED <<pc, op, args, calls, resp, ret, listVars, mu, ctxCancelled,
                 toctxErr, deadline, now, recvErr>>

\* line 253: msg.Ack()
cbAck(c) ==
  /\ cb[c].pc = "ack"
  /\ cb' = [cb EXCEPT ![c].acks = @ + 1, ![c].pc = "unlock"]
  /\ UNCHANGED <<pc, op, args, calls, resp, out, ret, listVars, mu, ctxCancelled,
                 toctxErr, deadline, now, recvErr>>

\* mutant: the callback returns without mu.Unlock()
cbUnlockMissing(c) ==
  /\ cb[c].pc = "unlock"
  /\ mu' = mu
  /\ cb' = [cb EXCEPT ![c].pc = "ret"]
  /\ UNCHANGED <<pc, op, args, calls, resp, out, ret, listVars, ctxCancelled,
                 toctxErr, deadline, now, recvErr>>

\* line 254: mu.Unlock(), and the callback returns
cbUnlock(c) ==
  /\ cb[c].pc = "unlock"
  /\ mu' = 0
  /\ cb' = [cb EXCEPT ![c].pc = "ret"]
  /\ UNCHANGED <<pc, op, args, calls, resp, out, ret, listVars, ctxCancelled,
                 toctxErr, deadline, now, recvErr>>

\* a second passes (the clock matters up to the deadline only)
Tick ==
  /\ pc = "recv"
  /\ now < deadline
  /\ now' = now + 1
  /\ UNCHANGED <<pc, op, args, calls, resp, out, ret, listVars, mu, cb, ctxCancelled,
                 toctxErr, deadline, recvErr>>

\* the timer of toctx fires: the deadline has passed and toctx is still live
Expire ==
  /\ pc = "recv"
  /\ toctxErr = ""
  /\ now >= deadline
  /\ toctxErr' = "DeadlineExceeded"
  /\ UNCHANGED <<pc, op, args, calls, resp, out, ret, listVars, mu, cb, ctxCancelled,
                 deadline, now, recvErr>>

\* the caller cancels the ctx it passed in: toctx, derived from it, is done too
CancelCtx ==
  /\ pc = "recv"
  /\ ~ctxCancelled
  /\ ctxCancelled' = TRUE
  /\ toctxErr' = IF toctxErr = "" THEN "Canceled" ELSE toctxErr
  /\ UNCHANGED <<pc, op, args, calls, resp, out, ret, listVars, mu, cb,
                 deadline, now, recvErr>>

\* the session hits an error the library does not retry
ReceiveError(e) ==
  /\ pc = "recv"
  /\ toctxErr = ""
  /\ recvErr.nil
  /\ recvErr' = e
  /\ UNCHANGED <<pc, op, args, calls, resp, out, ret, listVars, mu, cb, ctxCancelled,
                 toctxErr, deadline, now>>

\* mutant: sub.Receive is given ctx, not toctx, and does not see the deadline
occurrencePubsubReturnOnCtx ==
  /\ pc = "recv"
  /\ ctxCancelled \/ ~recvErr.nil
  /\ AllReturned
  /\ IF ~recvErr.nil
     THEN /\ ret' = [NoRet EXCEPT !.n = -1, !.err = recvErr]
          /\ out' = out
     ELSE /\ out' = Append(out, Println(Itoa(count)))
          /\ ret' = [NoRet EXCEPT !.n = count]
  /\ pc' = "done"
  /\ UNCHANGED <<op, args, calls, resp, listVars, pubsubVars>>

\* sub.Receive returns once toctx is done or the session failed, and every
\* outstanding callback has returned; then lines 256-261
occurrencePubsubReturn ==
  /\ pc = "recv"
  /\ toctxErr # "" \/ ~recvErr.nil
  /\ AllReturned
  /\ IF ~recvErr.nil
     THEN /\ ret' = [NoRet EXCEPT !.n = -1, !.err = recvErr]
          /\ out' = out
     ELSE /\ out' = Append(out, Println(Itoa(count)))
          /\ ret' = [NoRet EXCEPT !.n = count]
  /\ pc' = "done"
  /\ UNCHANGED <<op, args, calls, resp, listVars, pubsubVars>>

\* ------------------------------------------------------------------ Next
PubsubNext ==
  \/ \E s \in SubscriptionIDs, t \in Timeouts, p \in PubsubProjects :
       occurrencePubsub(s, t, p)
  \/ \E m \in Msgs : Deliver(m)
  \/ \E c \in 1..MaxDeliveries : cbLock(c)
  \/ \E c \in 1..MaxDeliveries : cbRead(c)
  \/ \E c \in 1..MaxDeliveries : cbWrite(c)
  \/ \E c \in 1..MaxDeliveries : cbPrintf(c)
  \/ \E c \in 1..MaxDeliveries : cbAck(c)
  \/ \E c \in 1..MaxDeliveries : cbUnlock(c)
  \/ Tick
  \/ Expire
  \/ CancelCtx
  \/ \E e \in RemoteErrors : ReceiveError(e)
  \/ occurrencePubsubReturn

\* an operation is invoked (pc = "idle") or takes its next step
Next ==
  \/ pc = "idle" /\ \E n \in IDs, p \in IDs : createNote(n, p)
  \/ pc = "idle" /\ \E u \in URLs, n \in IDs, op1 \in IDs, np \in IDs : createOccurrence(u, n, op1, np)
  \/ pc = "idle" /\ \E x \in Payloads, n \in IDs, p \in IDs : updateNote(x, n, p)
  \/ pc = "idle" /\ \E x \in Payloads, o \in OccurrenceNames : updateOccurrence(x, o)
  \/ pc = "idle" /\ \E n \in IDs, p \in IDs : deleteNote(n, p)
  \/ pc = "idle" /\ \E o \in OccurrenceNames : deleteOccurrence(o)
  \/ pc = "idle" /\ \E n \in IDs, p \in IDs : getNote(n, p)
  \/ pc = "idle" /\ \E o \in OccurrenceNames : getOccurrence(o)
  \/ pc = "idle" /\ \E p \in IDs, l \in Locations, d \in IDs : deleteDataset(p, l, d)
  \/ pc = "idle" /\ \E s \in SubscriptionIDs, p \in PubsubProjects : createOccurrenceSubscription(s, p)
  \/ pc = "idle" /\ \E u \in URLs, p \in IDs : getDiscoveryInfo(u, p)
  \/ pc = "idle" /\ \E n \in IDs, p \in IDs : getOccurrencesForNote(n, p)
  \/ pc = "idle" /\ \E u \in URLs, p \in IDs : getOccurrencesForImage(u, p)
  \/ getDiscoveryInfoNext
  \/ getOccurrencesForNoteNext
  \/ getOccurrencesForImageNext
  \/ PubsubNext

Spec == Init /\ [][Next]_vars

\* The Go scheduler runs every runnable goroutine, time passes, the timer of a
\* live toctx fires, and Receive returns once it can.  What the library
\* delivers, whether the caller cancels and whether the session fails are the
\* environment's choice and get no fairness.
PubsubFairness ==
  /\ \A c \in 1..MaxDeliveries :
       /\ WF_vars(cbLock(c))
       /\ WF_vars(cbRead(c))
       /\ WF_vars(cbWrite(c))
       /\ WF_vars(cbPrintf(c))
       /\ WF_vars(cbAck(c))
       /\ WF_vars(cbUnlock(c))
  /\ WF_vars(Tick)
  /\ WF_vars(Expire)
  /\ WF_vars(occurrencePubsubReturn)

PubsubFairSpec == Init /\ [][PubsubNext]_vars /\ PubsubFairness

\* ======================================================== properties
CountingOps == {"getOccurrencesForNote", "getOccurrencesForImage"}
PaginatedOps == CountingOps \cup {"getDiscoveryInfo"}
DeleteOps == {"deleteNote", "deleteOccurrence", "deleteDataset"}
NonPaginatedOps ==
  {"createNote", "createOccurrence", "updateNote", "updateOccurrence",
   "deleteNote", "deleteOccurrence", "getNote", "getOccurrence",
   "deleteDataset", "createOccurrenceSubscription", "occurrencePubsub"}
Min(a, b) == IF a < b THEN a ELSE b

\* the printed form of the first k items of the cursor, in cursor order
PrintedItems(k) == [j \in 1..k |-> it.items[j] \o <<"\n">>]

\* C1: getOccurrencesForNote and getOccurrencesForImage, on a cursor that
\* yields n elements and then iterator.Done, print exactly one line per
\* element, in cursor order, and return (n, nil).
C1_CountOnDone ==
  (pc = "done" /\ op \in CountingOps /\ it.term = Done) =>
    /\ out = PrintedItems(Len(it.items))
    /\ ret.n = Len(it.items)
    /\ ret.err = NilErr

C1_Witness ==
  /\ pc = "done"
  /\ op = "getOccurrencesForImage"
  /\ it.term = Done
  /\ Len(it.items) >= 2
  /\ it.items[1] # it.items[2]
  /\ ret.n = Len(it.items)

\* C2: getOccurrencesForNote and getOccurrencesForImage, on a cursor that
\* yields k elements and then an error other than iterator.Done, return -1
\* and that same error, whatever k is.
C2_SentinelOnError ==
  (pc = "done" /\ op \in CountingOps /\ it.term # Done) =>
    /\ ret.n = -1
    /\ ret.err = it.term

C2_Witness ==
  /\ pc = "done"
  /\ op = "getOccurrencesForNote"
  /\ it.term \in RemoteErrors
  /\ Len(it.items) >= 2
  /\ Len(out) = Len(it.items)
  /\ ret.n = -1

\* C3: when occurrencePubsub's Receive returned nil, the count returned is
\* the number of callback invocations of the session: no increment is lost,
\* and a message delivered again counts again.
C3_NoLostIncrement ==
  (op = "occurrencePubsub" /\ pc = "done" /\ ret.err.nil) =>
    ret.n = Invocations

C3_Witness ==
  /\ op = "occurrencePubsub"
  /\ pc = "done"
  /\ ret.err.nil
  /\ Invocations >= 2
  /\ cb[1].msg = cb[2].msg
  /\ ret.n = Invocations

\* C4: occurrencePubsub does not block for ever, and a session that is
\* running when the deadline of toctx expires ends normally: the operation
\* returns (count, nil) with the final count, not an error and not -1.
C4_ReturnsAfterDeadline ==
  /\ (pc = "recv") ~> (pc = "done")
  /\ (pc = "recv" /\ recvErr.nil /\ toctxErr = "DeadlineExceeded")
       ~> (pc = "done" /\ ret.err.nil /\ ret.n = count /\ ret.n >= 0)

C4_Witness ==
  /\ op = "occurrencePubsub"
  /\ pc = "done"
  /\ toctxErr = "DeadlineExceeded"
  /\ deadline >= 1
  /\ now = deadline
  /\ ret.err.nil
  /\ ret.n >= 2

\* the receive session of occurrencePubsub was started and has ended
SessionEnded == op = "occurrencePubsub" /\ pc = "done" /\ Len(calls) = 1

\* C5, as the specification states it: nothing but the expiry of the derived
\* deadline ends the receive session, so a session that Receive ended without
\* an error did not end before the deadline.
C5_OnlyExpiryEnds ==
  (SessionEnded /\ recvErr.nil) => now >= deadline

\* C5, amended: a receive session that Receive ended without an error was
\* ended by the expiry of the derived deadline (no sooner than the deadline)
\* or by the cancellation of the caller's context, from which toctx is
\* derived; by nothing else.
C5_ExpiryOrCallerCancel ==
  /\ (SessionEnded /\ recvErr.nil) =>
       \/ toctxErr = "DeadlineExceeded" /\ now >= deadline
       \/ toctxErr = "Canceled" /\ ctxCancelled
  /\ toctxErr = "DeadlineExceeded" => now >= deadline
  /\ toctxErr = "Canceled" => ctxCancelled

C5_Witness ==
  /\ SessionEnded
  /\ ctxCancelled
  /\ toctxErr = "Canceled"
  /\ recvErr.nil
  /\ now < deadline
  /\ ret.err.nil

\* the names the delete operations are to send
NotePath(p, n) == <<"projects/">> \o p \o <<"/notes/">> \o n
DatasetPath(p, l, d) ==
  <<"projects/">> \o p \o <<"/locations/">> \o l \o <<"/datasets/">> \o d
DeleteName ==
  CASE op = "deleteNote" -> NotePath(args.projectID, args.noteID)
    [] op = "deleteOccurrence" -> args.occurrenceName
    [] op = "deleteDataset" ->
         DatasetPath(args.projectID, args.location, args.datasetID)
DeleteMethod ==
  CASE op = "deleteNote" -> "DeleteNote"
    [] op = "deleteOccurrence" -> "DeleteOccurrence"
    [] op = "deleteDataset" -> "Datasets.Delete"
\* the one remote delete, with the composed name; nil when it succeeds
OneExactDelete ==
  /\ Len(calls) = 1
  /\ calls[1].method = DeleteMethod
  /\ calls[1].req.Name = DeleteName
  /\ resp.err.nil => ret.err.nil

\* C6, as the specification states it: each delete operation invokes exactly
\* one remote delete, with the composed name, and returns nil when it succeeds.
C6_ExactlyOneDelete ==
  (pc = "done" /\ op \in DeleteOps) => OneExactDelete

\* C6, amended: each delete operation invokes exactly one remote delete, with
\* the composed name, and returns nil when it succeeds; except that
\* deleteDataset invokes none when it cannot build its service, and then
\* returns that error behind the prefix "healthcare.New: ".
C6_OneDeleteUnlessNoService ==
  (pc = "done" /\ op \in DeleteOps) =>
    \/ OneExactDelete
    \/ /\ op = "deleteDataset"
       /\ calls = <<>>
       /\ ~ret.err.nil
       /\ Head(ret.err.msg) = "healthcare.New: "

C6_Witness ==
  /\ pc = "done"
  /\ op = "deleteDataset"
  /\ Len(calls) = 1
  /\ resp.err.nil
  /\ ret.err.nil
  /\ args.location = <<"/">>
  /\ Len(out) = 1

\* C7: a non-paginated operation makes its remote call at most once, and when
\* the call fails the caller gets the remote's error unchanged; deleteDataset
\* alone returns it behind the static prefix "Delete: ".
C7_OneCallErrorVerbatim ==
  (pc = "done" /\ op \in NonPaginatedOps) =>
    /\ Len(calls) <= 1
    /\ (Len(calls) = 1 /\ ~resp.err.nil) =>
         IF op = "deleteDataset"
         THEN /\ ~ret.err.nil
              /\ ret.err.msg = <<"Delete: ">> \o resp.err.msg
         ELSE ret.err = resp.err
    /\ (op = "occurrencePubsub" /\ ~recvErr.nil) => ret.err = recvErr

C7_Witness ==
  /\ pc = "done"
  /\ op = "deleteDataset"
  /\ Len(calls) = 1
  /\ resp.err \in RemoteErrors
  /\ ret.err # resp.err

\* C8: the note path sent by updateNote, deleteNote, getNote and
\* getOccurrencesForNote is projects/{projectID}/notes/{noteID}; createOccurrence
\* builds the note path from noteProjectID and the parent from occProjectID.
C8_NotePath ==
  /\ (op \in {"updateNote", "deleteNote", "getNote", "getOccurrencesForNote"}) =>
       /\ Len(calls) = 1
       /\ calls[1].req.Name = NotePath(args.projectID, args.noteID)
  /\ op = "createOccurrence" =>
       /\ Len(calls) = 1
       /\ calls[1].req.NoteName = NotePath(args.noteProjectID, args.noteID)
       /\ calls[1].req.Parent = <<"projects/">> \o args.occProjectID

C8_Witness ==
  /\ op = "createOccurrence"
  /\ args.noteProjectID = <<"%s">>
  /\ args.occProjectID = <<"a">>
  /\ args.noteID = <<"/">>
  /\ calls[1].req.NoteName = <<"projects/", "%s", "/notes/", "/">>

\* C9: in the three paginated operations the loop runs until the cursor gives
\* iterator.Done or an error, and ends right there: the terminator is asked for
\* once, nothing is asked for or printed after it, and what was printed
\* before it stays printed.
C9_AbortOnFirstError ==
  (op \in PaginatedOps) =>
    /\ nextCalls <= Len(it.items) + 1
    /\ (pc = "done") <=> (nextCalls = Len(it.items) + 1)
    /\ out = PrintedItems(Min(nextCalls, Len(it.items)))
    /\ (pc = "done" /\ it.term # Done) => ret.err = it.term

C9_Witness ==
  /\ op = "getDiscoveryInfo"
  /\ pc = "done"
  /\ it.term \in RemoteErrors
  /\ Len(it.items) >= 1
  /\ nextCalls = Len(it.items) + 1
  /\ Len(out) = Len(it.items)

\* the callbacks between mu.Lock() and mu.Unlock()
InSection == {c \in DOMAIN cb : cb[c].pc \in {"read", "write", "print", "ack", "unlock"}}
\* the lines the callbacks printed
MessageLines == SelectSeq(out, LAMBDA l : Head(l) = "Message ")
\* the callbacks that have printed their line
Printed == {c \in DOMAIN cb : cb[c].pc \in {"ack", "unlock", "ret"}}

C10_Exclusive ==
  (op = "occurrencePubsub") =>
    /\ Cardinality(InSection) <= 1
    /\ mu = 0 <=> InSection = {}
    /\ mu # 0 => InSection = {mu}
    /\ Len(MessageLines) = Cardinality(Printed)
    /\ \A k \in 1..Len(MessageLines) :
         SubSeq(MessageLines[k], 1, Len(Itoa(k)) + 2)
           = <<"Message ">> \o Itoa(k) \o <<": ">>
    /\ \A c \in DOMAIN cb :
         cb[c].acks = IF cb[c].pc \in {"unlock", "ret"} THEN 1 ELSE 0

\* C10: in one session at most one callback is between Lock and Unlock, so
\* the numbers printed are 1, 2, ..., n in this order, each delivery is
\* acknowledged exactly once, the lock is free again after every callback, and
\* a callback waiting for the lock gets it and returns.
C10_SerializedSection ==
  /\ []C10_Exclusive
  /\ \A c \in 1..MaxDeliveries : (cb[c].pc = "lock") ~> (cb[c].pc = "ret")

C10_Witness ==
  /\ op = "occurrencePubsub"
  /\ Len(MessageLines) >= 2
  /\ AllReturned
  /\ mu = 0
  /\ cb[1].acks = 1
  /\ cb[2].acks = 1
  /\ cb[1].msg # cb[2].msg

====
